---- MODULE Spec2Model ----
(***************************************************************************)
(* Front end of the crawler: the job store (services/job-service.ts), the  *)
(* request helper (services/api.ts), App.tsx with its polling effect and   *)
(* handlers, and the submit handler of CrawlJobForm.                       *)
(*                                                                         *)
(* USE_MOCK is the build switch of job-service.ts and `variant` tells which *)
(* of the two versions of the service the file holds is built: "async"     *)
(* (POST /crawl_async/, then reconciliation) or "sync" (POST /crawl/).     *)
(* Both are fixed by Init.  The mock branches of the two versions are the  *)
(* same code, so the mock build is explored once, as "async".  The mock    *)
(* build talks to no backend: syncJobFromBackend is an operation of the    *)
(* real asynchronous build only.                                           *)
(*                                                                         *)
(* Dates are integers read from the clock `now`; an absent optional Date   *)
(* is NoDate.  A path or URL string is the sequence of its '/'-separated   *)
(* segments; an absent or empty path is NoDir.  An absent or empty string  *)
(* is NoStr.  The random `id` of a log entry made locally and the `meta`   *)
(* of a log entry are not represented (the id of a fetched entry is); a    *)
(* local log message is <<text, number>>.                                  *)
(*                                                                         *)
(* Specifications: Spec is the job store with the simulation and the       *)
(* reconciliation; SpecExport the job store with exportJob; SpecFrame      *)
(* every operation of the job service on a small store; SpecSim the mock   *)
(* build with intervals that keep firing; SpecApp the form, App and the    *)
(* log requests on the real asynchronous backend; SpecPoll the same while  *)
(* App stays mounted and its polling keeps firing; SpecSubmit the form and *)
(* direct calls of createJob; SpecPost applies postJSON to every pair of   *)
(* fetch outcomes; SpecFolder applies extractJobFolder to every token.     *)
(***************************************************************************)
EXTENDS Integers, Sequences, FiniteSets, TLC

VARIABLES USE_MOCK, variant, now, jobs, logs, intervals, toast, last,
          mounted, selectedJobId, pollTimers, pending, BASE_URL

(* the state of the front end around the job service: whether App is
   mounted, its selectedJobId, the polling intervals alive (how many per
   captured selectedJobId), the log requests in flight, and the BASE_URL
   that services/api.ts was built with *)
app == <<mounted, selectedJobId, pollTimers, pending, BASE_URL>>

vars == <<USE_MOCK, variant, now, jobs, logs, intervals, toast, last,
          mounted, selectedJobId, pollTimers, pending, BASE_URL>>

(* ------------------------------ bounds --------------------------------- *)
MaxJobs == 2
MaxClock == 2
MaxPages == 2
MaxRemoteCrawled == 1
MaxActionLogs == 3
MaxSegments == 3
MaxFormats == 2
MaxInFlight == 2
MaxRemoteLogs == 2

MaxFrameJobs == 1
MaxFrameLogs == 10

(* --------------------------- program constants ------------------------- *)
NoDate == 0
NoCount == -1
NoStr == ""
NoDir == <<>>
SimCap == 50
MockQueueCap == 20
SampleLogCount == 7
RandomIncMax == 3

MaxLogs == SampleLogCount * MaxJobs + MaxActionLogs

IdPool == {"a", "b"}
Variants == {"async", "sync"}
JobStatus == {"queued", "running", "paused", "completed", "failed", "canceled"}
Terminal == {"completed", "failed", "canceled"}
Actions == {"start", "pause", "resume", "cancel"}

(* the configurations submitted: only name, startUrls and maxPages are read
   by the job service *)
Configs ==
  { [name |-> NoStr, startUrls |-> <<"u">>, maxPages |-> MaxPages] }

Min(a, b) == IF a < b THEN a ELSE b
Max(a, b) == IF a > b THEN a ELSE b

(* jobs.find(j => j.id === jobId): index of the first match, 0 if none *)
FindJob(js, jobId) ==
  IF \E i \in 1..Len(js) : js[i].id = jobId
  THEN CHOOSE i \in 1..Len(js) :
         /\ js[i].id = jobId
         /\ \A k \in 1..(i - 1) : js[k].id # jobId
  ELSE 0

NoOp == [op |-> "init", id |-> NoStr, arg |-> NoStr, threw |-> FALSE,
         again |-> FALSE, ret |-> NoStr]

(* history of the calls: the operation called last, the job id and the
   argument it was given, whether it threw, for syncJobFromBackend whether
   it repeats the call before it (same id and snapshot), and what the call
   returned (NoStr where the model does not read it) *)
Called(op, id, arg, threw) ==
  [op |-> op, id |-> id, arg |-> arg, threw |-> threw,
   again |-> IF op = "syncJobFromBackend" /\ last.op = op
             THEN last.id = id /\ last.arg = arg ELSE FALSE,
   ret |-> NoStr]

Returned(op, id, arg, threw, ret) ==
  [op |-> op, id |-> id, arg |-> arg, threw |-> threw, again |-> FALSE,
   ret |-> ret]

(* status of the job an operation on jobId will find, NoStr if none *)
StatusOf(js, jobId) ==
  IF FindJob(js, jobId) = 0 THEN NoStr ELSE js[FindJob(js, jobId)].status

(* ------------------------------ mock helpers --------------------------- *)
SampleLog(jobId, n, level, text, base) ==
  [jobId |-> jobId, level |-> level, message |-> <<text, 0>>,
   timestamp |-> base - n * 3000]

createSampleLogs(jobId, base) ==
  << SampleLog(jobId, 0, "info", "Starting crawl job", base),
     SampleLog(jobId, 1, "info", "Checking robots.txt", base),
     SampleLog(jobId, 2, "success", "Found sitemap.xml", base),
     SampleLog(jobId, 3, "info", "Discovered 15 new URLs from sitemap", base),
     SampleLog(jobId, 4, "success", "Successfully crawled: https://example.com/", base),
     SampleLog(jobId, 5, "warn", "Rate limiting detected, backing off", base),
     SampleLog(jobId, 6, "error", "Failed to crawl: https://example.com/broken", base) >>

(* simulateCrawling(jobId): a new interval timer unless the job is absent
   or not running *)
simulateCrawling(js, ivs, jobId) ==
  IF FindJob(js, jobId) = 0 \/ StatusOf(js, jobId) # "running"
  THEN ivs
  ELSE [ivs EXCEPT ![jobId] = @ + 1]

(* ------------------------------ createJob ------------------------------ *)
MockJob(config, gid, t) ==
  [id |-> gid, name |-> config.name, config |-> config, status |-> "queued",
   createdAt |-> t, startedAt |-> NoDate, finishedAt |-> NoDate,
   updatedAt |-> NoDate,
   counts |-> [crawled |-> 0, queued |-> Min(config.maxPages, MockQueueCap),
               failed |-> 0],
   jobDir |-> NoDir, startUrl |-> NoStr]

(* mutant of AsyncJob: the job is built the way the mock branch builds it
   (queued pages counted, not started) *)
AsyncJobAsMock(config, jobId, t) ==
  [id |-> jobId, name |-> IF config.name = NoStr THEN "job" ELSE config.name,
   config |-> config, status |-> "running",
   createdAt |-> t, startedAt |-> NoDate, finishedAt |-> NoDate,
   updatedAt |-> NoDate,
   counts |-> [crawled |-> 0, queued |-> Min(config.maxPages, MockQueueCap),
               failed |-> 0],
   jobDir |-> NoDir, startUrl |-> NoStr]

AsyncJob(config, jobId, t) ==
  [id |-> jobId, name |-> IF config.name = NoStr THEN "job" ELSE config.name,
   config |-> config, status |-> "running",
   createdAt |-> t, startedAt |-> t, finishedAt |-> NoDate,
   updatedAt |-> NoDate,
   counts |-> [crawled |-> 0, queued |-> 0, failed |-> 0],
   jobDir |-> NoDir, startUrl |-> NoStr]

jobFromBackend(config, r, gid, t) ==
  [id |-> gid, name |-> IF config.name = NoStr THEN "job" ELSE config.name,
   config |-> config, status |-> "completed",
   createdAt |-> t, startedAt |-> t, finishedAt |-> t, updatedAt |-> t,
   counts |-> [crawled |-> IF r.pages = NoCount THEN 0 ELSE r.pages,
               queued |-> 0, failed |-> 0],
   jobDir |-> r.jobDir, startUrl |-> r.startUrl]

(* responses of POST /crawl_async/ : the fetch rejects, a non-2xx status,
   or a 2xx body whose job_id may be missing *)
AsyncResponses ==
  { [kind |-> "neterr", ok |-> FALSE, job_id |-> NoStr],
    [kind |-> "http", ok |-> FALSE, job_id |-> NoStr] }
  \cup { [kind |-> "http", ok |-> TRUE, job_id |-> j] : j \in IdPool \cup {NoStr} }

MockResponse == [kind |-> "mock", ok |-> TRUE]

(* createJob, mock branch: the new <<jobs, logs>> *)
createJobMock(js, ls, config, gid, t) ==
  << Append(js, MockJob(config, gid, t)), ls \o createSampleLogs(gid, t) >>

(* mutant of createJobAsync: the job is stored before the job_id check *)
createJobAsyncStoreFirst(js, config, res, t) ==
  IF res.kind = "neterr"
  THEN [threw |-> TRUE, jobs |-> js]
  ELSE IF ~res.ok
  THEN [threw |-> TRUE, jobs |-> js]
  ELSE [threw |-> res.job_id = NoStr,
        jobs |-> <<AsyncJob(config, res.job_id, t)>> \o js]

(* createJob, real backend, asynchronous variant, from the response on *)
createJobAsync(js, config, res, t) ==
  IF res.kind = "neterr"
  THEN [threw |-> TRUE, jobs |-> js]
  ELSE IF ~res.ok
  THEN [threw |-> TRUE, jobs |-> js]
  ELSE IF res.job_id = NoStr
  THEN [threw |-> TRUE, jobs |-> js]
  ELSE [threw |-> FALSE, jobs |-> <<AsyncJob(config, res.job_id, t)>> \o js]

(* responses of POST /crawl/ (synchronous variant): the fetch rejects, a
   non-2xx status, or a 2xx body {status, results} *)
ResultPool ==
  { [startUrl |-> "u", jobDir |-> <<"output_crawler", "job-1">>, pages |-> 2],
    [startUrl |-> "u", jobDir |-> <<"output_crawler", "job-2">>, pages |-> NoCount] }

ResultLists ==
  {<<>>} \cup { <<r>> : r \in ResultPool }
         \cup { <<r1, r2>> : r1 \in ResultPool, r2 \in ResultPool }

SyncResponses ==
  { [kind |-> "neterr", ok |-> FALSE, status |-> "error", results |-> <<>>],
    [kind |-> "http", ok |-> FALSE, status |-> "error", results |-> <<>>] }
  \cup { [kind |-> "http", ok |-> TRUE, status |-> st, results |-> rs] :
           st \in {"ok", "error"}, rs \in ResultLists }

(* createJob, real backend, synchronous variant, from the response on;
   gids[i] is the generateId() of the i-th result *)
createJobSync(js, config, res, gids, t) ==
  IF res.kind = "neterr"
  THEN [threw |-> TRUE, jobs |-> js]
  ELSE IF ~res.ok
  THEN [threw |-> TRUE, jobs |-> js]
  ELSE IF res.status # "ok" \/ Len(res.results) = 0
  THEN [threw |-> TRUE, jobs |-> js]
  ELSE LET completedJobs ==
             [i \in 1..Len(res.results) |->
                jobFromBackend(config, res.results[i], gids[i], t)]
       IN [threw |-> FALSE, jobs |-> completedJobs \o js]

CreateJobMock ==
  /\ USE_MOCK
  /\ Len(jobs) < MaxJobs
  /\ \E config \in Configs, gid \in IdPool :
       LET r == createJobMock(jobs, logs, config, gid, now) IN
       /\ jobs' = r[1]
       /\ logs' = r[2]
       /\ last' = Called("createJob", gid,
                         [config |-> config, res |-> MockResponse], FALSE)
  /\ UNCHANGED <<USE_MOCK, variant, now, intervals, toast>>
  /\ UNCHANGED app

(* JobService.createJob(config) of the real asynchronous build, for a
   config of the set configs *)
CreateJobAsyncOf(configs) ==
  /\ ~USE_MOCK
  /\ variant = "async"
  /\ \E config \in configs, res \in AsyncResponses :
       LET r == createJobAsync(jobs, config, res, now) IN
       /\ Len(r.jobs) <= MaxJobs
       /\ jobs' = r.jobs
       /\ last' = Called("createJob", IF r.threw THEN NoStr ELSE res.job_id,
                         [config |-> config, res |-> res], r.threw)
  /\ UNCHANGED <<USE_MOCK, variant, now, logs, intervals, toast>>
  /\ UNCHANGED app

CreateJobAsync == CreateJobAsyncOf(Configs)

CreateJobSync ==
  /\ ~USE_MOCK
  /\ variant = "sync"
  /\ \E config \in Configs, res \in SyncResponses :
       \E gids \in [1..Len(res.results) -> IdPool] :
         LET r == createJobSync(jobs, config, res, gids, now) IN
         /\ Len(r.jobs) <= MaxJobs
         /\ jobs' = r.jobs
         /\ last' = Called("createJob", IF r.threw THEN NoStr ELSE gids[1],
                           [config |-> config, res |-> res], r.threw)
  /\ UNCHANGED <<USE_MOCK, variant, now, logs, intervals, toast>>
  /\ UNCHANGED app

(* --------------------------- performJobAction -------------------------- *)
ActionLog(jobId, level, text, t) ==
  [jobId |-> jobId, level |-> level, message |-> <<text, 0>>, timestamp |-> t]

(* mutant of performJobActionMock: pause is also taken from queued *)
performJobActionPauseQueued(js, ls, ivs, i, jobId, action, t) ==
  LET job == js[i] IN
  IF action = "start" /\ job.status = "queued"
  THEN LET js2 == [js EXCEPT ![i] = [job EXCEPT !.status = "running",
                                                !.startedAt = t,
                                                !.updatedAt = t]]
       IN << js2,
             Append(ls, ActionLog(jobId, "info", "Crawl job started", t)),
             simulateCrawling(js2, ivs, jobId) >>
  ELSE IF action = "pause" /\ job.status \in {"queued", "running"}
  THEN << [js EXCEPT ![i] = [job EXCEPT !.status = "paused", !.updatedAt = t]],
          Append(ls, ActionLog(jobId, "warn", "Crawl job paused", t)),
          ivs >>
  ELSE IF action = "resume" /\ job.status = "paused"
  THEN LET js2 == [js EXCEPT ![i] = [job EXCEPT !.status = "running",
                                                !.updatedAt = t]]
       IN << js2,
             Append(ls, ActionLog(jobId, "info", "Crawl job resumed", t)),
             simulateCrawling(js2, ivs, jobId) >>
  ELSE IF action = "cancel" /\ job.status \in {"queued", "running", "paused"}
  THEN << [js EXCEPT ![i] = [job EXCEPT !.status = "canceled",
                                        !.finishedAt = t,
                                        !.updatedAt = t]],
          Append(ls, ActionLog(jobId, "error", "Crawl job canceled", t)),
          ivs >>
  ELSE << js, ls, ivs >>

(* mutant of performJobActionMock: cancel is taken from every status *)
performJobActionCancelAny(js, ls, ivs, i, jobId, action, t) ==
  LET job == js[i] IN
  IF action = "start" /\ job.status = "queued"
  THEN LET js2 == [js EXCEPT ![i] = [job EXCEPT !.status = "running",
                                                !.startedAt = t,
                                                !.updatedAt = t]]
       IN << js2,
             Append(ls, ActionLog(jobId, "info", "Crawl job started", t)),
             simulateCrawling(js2, ivs, jobId) >>
  ELSE IF action = "pause" /\ job.status = "running"
  THEN << [js EXCEPT ![i] = [job EXCEPT !.status = "paused", !.updatedAt = t]],
          Append(ls, ActionLog(jobId, "warn", "Crawl job paused", t)),
          ivs >>
  ELSE IF action = "resume" /\ job.status = "paused"
  THEN LET js2 == [js EXCEPT ![i] = [job EXCEPT !.status = "running",
                                                !.updatedAt = t]]
       IN << js2,
             Append(ls, ActionLog(jobId, "info", "Crawl job resumed", t)),
             simulateCrawling(js2, ivs, jobId) >>
  ELSE IF action = "cancel"
  THEN << [js EXCEPT ![i] = [job EXCEPT !.status = "canceled",
                                        !.finishedAt = t,
                                        !.updatedAt = t]],
          Append(ls, ActionLog(jobId, "error", "Crawl job canceled", t)),
          ivs >>
  ELSE << js, ls, ivs >>

(* mutant of performJobActionMock: start does not stamp startedAt *)
performJobActionStartUnstamped(js, ls, ivs, i, jobId, action, t) ==
  LET job == js[i] IN
  IF action = "start" /\ job.status = "queued"
  THEN LET js2 == [js EXCEPT ![i] = [job EXCEPT !.status = "running",
                                                !.updatedAt = t]]
       IN << js2,
             Append(ls, ActionLog(jobId, "info", "Crawl job started", t)),
             simulateCrawling(js2, ivs, jobId) >>
  ELSE IF action = "pause" /\ job.status = "running"
  THEN << [js EXCEPT ![i] = [job EXCEPT !.status = "paused", !.updatedAt = t]],
          Append(ls, ActionLog(jobId, "warn", "Crawl job paused", t)),
          ivs >>
  ELSE IF action = "resume" /\ job.status = "paused"
  THEN LET js2 == [js EXCEPT ![i] = [job EXCEPT !.status = "running",
                                                !.updatedAt = t]]
       IN << js2,
             Append(ls, ActionLog(jobId, "info", "Crawl job resumed", t)),
             simulateCrawling(js2, ivs, jobId) >>
  ELSE IF action = "cancel" /\ job.status \in {"queued", "running", "paused"}
  THEN << [js EXCEPT ![i] = [job EXCEPT !.status = "canceled",
                                        !.finishedAt = t,
                                        !.updatedAt = t]],
          Append(ls, ActionLog(jobId, "error", "Crawl job canceled", t)),
          ivs >>
  ELSE << js, ls, ivs >>

(* the mock branch for a job found at index i; the result is the new
   <<jobs, logs, intervals>> *)
performJobActionMock(js, ls, ivs, i, jobId, action, t) ==
  LET job == js[i] IN
  IF action = "start" /\ job.status = "queued"
  THEN LET js2 == [js EXCEPT ![i] = [job EXCEPT !.status = "running",
                                                !.startedAt = t,
                                                !.updatedAt = t]]
       IN << js2,
             Append(ls, ActionLog(jobId, "info", "Crawl job started", t)),
             simulateCrawling(js2, ivs, jobId) >>
  ELSE IF action = "pause" /\ job.status = "running"
  THEN << [js EXCEPT ![i] = [job EXCEPT !.status = "paused", !.updatedAt = t]],
          Append(ls, ActionLog(jobId, "warn", "Crawl job paused", t)),
          ivs >>
  ELSE IF action = "resume" /\ job.status = "paused"
  THEN LET js2 == [js EXCEPT ![i] = [job EXCEPT !.status = "running",
                                                !.updatedAt = t]]
       IN << js2,
             Append(ls, ActionLog(jobId, "info", "Crawl job resumed", t)),
             simulateCrawling(js2, ivs, jobId) >>
  ELSE IF action = "cancel" /\ job.status \in {"queued", "running", "paused"}
  THEN << [js EXCEPT ![i] = [job EXCEPT !.status = "canceled",
                                        !.finishedAt = t,
                                        !.updatedAt = t]],
          Append(ls, ActionLog(jobId, "error", "Crawl job canceled", t)),
          ivs >>
  ELSE << js, ls, ivs >>

(* App.handleJobAction: await performJobAction, then toast success; toast
   error only when it throws *)
handleJobAction ==
  /\ \E jobId \in IdPool, action \in Actions :
       LET i == FindJob(jobs, jobId) IN
       IF USE_MOCK
       THEN IF i = 0
            THEN /\ UNCHANGED <<jobs, logs, intervals>>
                 /\ toast' = "error"
                 /\ last' = Called("performJobAction", jobId, action, TRUE)
            ELSE LET r == performJobActionMock(jobs, logs, intervals, i,
                                               jobId, action, now)
                 IN /\ Len(r[2]) <= MaxLogs
                    /\ jobs' = r[1]
                    /\ logs' = r[2]
                    /\ intervals' = r[3]
                    /\ toast' = "success"
                    /\ last' = Called("performJobAction", jobId, action, FALSE)
       ELSE /\ UNCHANGED <<jobs, logs, intervals>>
            /\ toast' = "success"
            /\ last' = Called("performJobAction", jobId, action, FALSE)
  /\ UNCHANGED <<USE_MOCK, variant, now>>
  /\ UNCHANGED app

(* ------------------- simulateCrawling: interval body ------------------- *)
TickLog(jobId, text, n, t) ==
  [jobId |-> jobId, level |-> "success", message |-> <<text, n>>,
   timestamp |-> t]

(* mutant of IntervalTick: the callback stops only when the job is absent *)
IntervalTickAbsentOnly ==
  /\ \E jobId \in IdPool, rnd \in 1..RandomIncMax, fail \in BOOLEAN :
       /\ intervals[jobId] > 0
       /\ LET i == FindJob(jobs, jobId) IN
          IF i = 0
          THEN /\ intervals' = [intervals EXCEPT ![jobId] = @ - 1]
               /\ UNCHANGED <<jobs, logs>>
               /\ last' = Called("tick", jobId, "stopped", FALSE)
          ELSE LET current == jobs[i]
                   total == Min(current.config.maxPages, SimCap)
                   grow == current.counts.crawled < total
                   inc == Min(rnd, total - current.counts.crawled)
                   c1 == IF grow
                         THEN [crawled |-> current.counts.crawled + inc,
                               queued |-> Max(0, current.counts.queued - inc),
                               failed |-> current.counts.failed
                                          + (IF fail THEN 1 ELSE 0)]
                         ELSE current.counts
                   j1 == IF grow
                         THEN [current EXCEPT !.counts = c1, !.updatedAt = now]
                         ELSE current
                   l1 == IF grow
                         THEN Append(logs, TickLog(jobId, "Successfully crawled",
                                                   c1.crawled, now))
                         ELSE logs
                   finish == c1.crawled + c1.failed >= total
                   j2 == IF finish
                         THEN [j1 EXCEPT !.status = "completed",
                                         !.finishedAt = now,
                                         !.counts.queued = 0]
                         ELSE j1
                   l2 == IF finish
                         THEN Append(l1, TickLog(jobId, "Crawl job completed",
                                                 c1.crawled, now))
                         ELSE l1
               IN /\ Len(l2) <= MaxLogs
                  /\ jobs' = [jobs EXCEPT ![i] = j2]
                  /\ logs' = l2
                  /\ intervals' = IF finish
                                  THEN [intervals EXCEPT ![jobId] = @ - 1]
                                  ELSE intervals
                  /\ last' = Called("tick", jobId, "ran", FALSE)
  /\ UNCHANGED <<USE_MOCK, variant, now, toast>>
  /\ UNCHANGED app

(* one firing of an interval created for jobId; rnd is
   Math.floor(Math.random() * 3) + 1 and fail is Math.random() < 0.1 *)
IntervalTick ==
  /\ \E jobId \in IdPool, rnd \in 1..RandomIncMax, fail \in BOOLEAN :
       /\ intervals[jobId] > 0
       /\ LET i == FindJob(jobs, jobId) IN
          IF i = 0 \/ jobs[i].status # "running"
          THEN /\ intervals' = [intervals EXCEPT ![jobId] = @ - 1]
               /\ UNCHANGED <<jobs, logs>>
               /\ last' = Called("tick", jobId, "stopped", FALSE)
          ELSE LET current == jobs[i]
                   total == Min(current.config.maxPages, SimCap)
                   grow == current.counts.crawled < total
                   inc == Min(rnd, total - current.counts.crawled)
                   c1 == IF grow
                         THEN [crawled |-> current.counts.crawled + inc,
                               queued |-> Max(0, current.counts.queued - inc),
                               failed |-> current.counts.failed
                                          + (IF fail THEN 1 ELSE 0)]
                         ELSE current.counts
                   j1 == IF grow
                         THEN [current EXCEPT !.counts = c1, !.updatedAt = now]
                         ELSE current
                   l1 == IF grow
                         THEN Append(logs, TickLog(jobId, "Successfully crawled",
                                                   c1.crawled, now))
                         ELSE logs
                   finish == c1.crawled + c1.failed >= total
                   j2 == IF finish
                         THEN [j1 EXCEPT !.status = "completed",
                                         !.finishedAt = now,
                                         !.counts.queued = 0]
                         ELSE j1
                   l2 == IF finish
                         THEN Append(l1, TickLog(jobId, "Crawl job completed",
                                                 c1.crawled, now))
                         ELSE l1
               IN /\ Len(l2) <= MaxLogs
                  /\ jobs' = [jobs EXCEPT ![i] = j2]
                  /\ logs' = l2
                  /\ intervals' = IF finish
                                  THEN [intervals EXCEPT ![jobId] = @ - 1]
                                  ELSE intervals
                  /\ last' = Called("tick", jobId, "ran", FALSE)
  /\ UNCHANGED <<USE_MOCK, variant, now, toast>>
  /\ UNCHANGED app

(* ------------------------- syncJobFromBackend -------------------------- *)
NoInfo == [present |-> FALSE, crawled |-> NoCount, done |-> FALSE,
           error |-> NoStr, jobDir |-> NoDir, startUrl |-> NoStr]

(* bodies of GET /jobs/{id}; getJobInfo yields NoInfo (null) when the fetch
   rejects or the status is not 2xx *)
Info(c, d, e, jd, su) ==
  [present |-> TRUE, crawled |-> c, done |-> d, error |-> e,
   jobDir |-> jd, startUrl |-> su]

Infos ==
  { Info(c, FALSE, NoStr, NoDir, NoStr) : c \in 0..MaxRemoteCrawled }
  \cup { Info(MaxRemoteCrawled, TRUE, NoStr, <<"job-1">>, "u"),
         Info(NoCount, FALSE, "boom", NoDir, NoStr),
         Info(NoCount, TRUE, "boom", <<"job-1">>, NoStr) }

(* mutant of syncJob: a done snapshot sets the status without stamping
   finishedAt *)
syncJobNoStamp(local, info, t) ==
  LET j1 == [local EXCEPT
               !.counts.crawled = IF info.crawled = NoCount THEN @
                                  ELSE info.crawled,
               !.updatedAt = t]
      j2 == IF info.done THEN [j1 EXCEPT !.status = "completed"] ELSE j1
      j3 == IF info.error # NoStr
            THEN [j2 EXCEPT !.status = "failed", !.finishedAt = t]
            ELSE j2
      j4 == IF info.jobDir # NoDir
            THEN [j3 EXCEPT !.jobDir = <<"output_crawler">> \o info.jobDir]
            ELSE j3
  IN IF info.startUrl # NoStr THEN [j4 EXCEPT !.startUrl = info.startUrl]
     ELSE j4

(* mutant of syncJob: the remote count is added to the local one *)
syncJobSummed(local, info, t) ==
  LET j1 == [local EXCEPT
               !.counts.crawled = IF info.crawled = NoCount THEN @
                                  ELSE @ + info.crawled,
               !.updatedAt = t]
      j2 == IF info.done
            THEN [j1 EXCEPT !.status = "completed", !.finishedAt = t]
            ELSE j1
      j3 == IF info.error # NoStr
            THEN [j2 EXCEPT !.status = "failed", !.finishedAt = t]
            ELSE j2
      j4 == IF info.jobDir # NoDir
            THEN [j3 EXCEPT !.jobDir = <<"output_crawler">> \o info.jobDir]
            ELSE j3
  IN IF info.startUrl # NoStr THEN [j4 EXCEPT !.startUrl = info.startUrl]
     ELSE j4

(* mutant of syncJob: the merge stamps createdAt as well *)
syncJobRestamped(local, info, t) ==
  LET j1 == [local EXCEPT
               !.counts.crawled = IF info.crawled = NoCount THEN @
                                  ELSE info.crawled,
               !.createdAt = t,
               !.updatedAt = t]
      j2 == IF info.done
            THEN [j1 EXCEPT !.status = "completed", !.finishedAt = t]
            ELSE j1
      j3 == IF info.error # NoStr
            THEN [j2 EXCEPT !.status = "failed", !.finishedAt = t]
            ELSE j2
      j4 == IF info.jobDir # NoDir
            THEN [j3 EXCEPT !.jobDir = <<"output_crawler">> \o info.jobDir]
            ELSE j3
  IN IF info.startUrl # NoStr THEN [j4 EXCEPT !.startUrl = info.startUrl]
     ELSE j4

syncJob(local, info, t) ==
  LET j1 == [local EXCEPT
               !.counts.crawled = IF info.crawled = NoCount THEN @
                                  ELSE info.crawled,
               !.updatedAt = t]
      j2 == IF info.done
            THEN [j1 EXCEPT !.status = "completed", !.finishedAt = t]
            ELSE j1
      j3 == IF info.error # NoStr
            THEN [j2 EXCEPT !.status = "failed", !.finishedAt = t]
            ELSE j2
      j4 == IF info.jobDir # NoDir
            THEN [j3 EXCEPT !.jobDir = <<"output_crawler">> \o info.jobDir]
            ELSE j3
  IN IF info.startUrl # NoStr THEN [j4 EXCEPT !.startUrl = info.startUrl]
     ELSE j4

(* mutant of syncJobFromBackend: the job is stamped before the snapshot is
   looked at *)
syncJobFromBackendStampFirst ==
  /\ ~USE_MOCK
  /\ variant = "async"
  /\ \E jobId \in IdPool, info \in Infos \cup {NoInfo} :
       LET i == FindJob(jobs, jobId) IN
       /\ IF i = 0
          THEN jobs' = jobs
          ELSE IF ~info.present
          THEN jobs' = [jobs EXCEPT ![i].updatedAt = now]
          ELSE jobs' = [jobs EXCEPT ![i] = syncJob(jobs[i], info, now)]
       /\ last' = Called("syncJobFromBackend", jobId, info, FALSE)
  /\ UNCHANGED <<USE_MOCK, variant, now, logs, intervals, toast>>
  /\ UNCHANGED app

syncJobFromBackend ==
  /\ ~USE_MOCK
  /\ variant = "async"
  /\ \E jobId \in IdPool, info \in Infos \cup {NoInfo} :
       LET i == FindJob(jobs, jobId) IN
       /\ IF ~info.present \/ i = 0
          THEN jobs' = jobs
          ELSE jobs' = [jobs EXCEPT ![i] = syncJob(jobs[i], info, now)]
       /\ last' = Called("syncJobFromBackend", jobId, info, FALSE)
  /\ UNCHANGED <<USE_MOCK, variant, now, logs, intervals, toast>>
  /\ UNCHANGED app

(* ------------------- extractJobFolder, buildDownloadUrl ---------------- *)
(* the segments a working-directory token is made of; "" is the empty
   segment of "a//b", of a leading and of a trailing '/' *)
SegPool == {"", "output_crawler", "job-1", "x"}

RECURSIVE PathsOfLen(_)
PathsOfLen(n) ==
  IF n = 0 THEN {<<>>}
  ELSE { Append(p, s) : p \in PathsOfLen(n - 1), s \in SegPool }

(* the non-empty strings of at most MaxSegments segments: <<"">> is the
   empty string, which is NoDir *)
Tokens ==
  UNION { PathsOfLen(n) : n \in 1..MaxSegments } \ { <<"">> }

(* mutant of extractJobFolder: only the leading path component is dropped *)
extractJobFolderDropFirst(jobDir) ==
  IF jobDir = NoDir THEN NoDir
  ELSE LET parts == jobDir IN
       IF Len(parts) >= 2 THEN Tail(parts) ELSE parts

(* extractJobFolder(jobDir): parts[1] || parts[0] || null of
   jobDir.split('/'); the folder is given as the one-segment path <<folder>>
   and null as NoDir *)
extractJobFolder(jobDir) ==
  IF jobDir = NoDir THEN NoDir
  ELSE LET parts == jobDir IN
       IF Len(parts) >= 2 /\ parts[2] # "" THEN <<parts[2]>>
       ELSE IF parts[1] # "" THEN <<parts[1]>>
       ELSE NoDir

API_URL == <<"http:", "", "127.0.0.1:8000">>

(* buildDownloadUrl(jobDir, fileName): NoDir stands for null *)
buildDownloadUrl(jobDir, fileName) ==
  LET folder == extractJobFolder(jobDir) IN
  IF folder = NoDir THEN NoDir
  ELSE API_URL \o <<"download">> \o folder \o <<fileName>>

(* a token is handed to extractJobFolder *)
NormalizeToken ==
  /\ last.op = "init"
  /\ last.arg \in Tokens
  /\ last' = Returned("extractJobFolder", NoStr, last.arg, FALSE,
                      extractJobFolder(last.arg))
  /\ UNCHANGED <<USE_MOCK, variant, now, jobs, logs, intervals, toast>>
  /\ UNCHANGED app

(* the folder extractJobFolder returned is handed to it again *)
NormalizeFolder ==
  /\ last.op = "extractJobFolder"
  /\ ~last.again
  /\ last.ret # NoDir
  /\ last' = [Returned("extractJobFolder", NoStr, last.ret, FALSE,
                       extractJobFolder(last.ret)) EXCEPT !.again = TRUE]
  /\ UNCHANGED <<USE_MOCK, variant, now, jobs, logs, intervals, toast>>
  /\ UNCHANGED app

(* ------------------------------ exportJob ------------------------------ *)
(* the own keys of formatToFilename *)
OwnFormats == {"json", "csv", "markdown-book"}

(* a property name every object literal inherits from Object.prototype:
   `f in formatToFilename` is true for it as well *)
InheritedKeys == {"toString"}

(* the format ids requested: the own keys, an inherited key and an id that
   is no key at all *)
FormatIds == OwnFormats \cup InheritedKeys \cup {"pdf"}

FormatLists ==
  UNION { [1..n -> FormatIds] : n \in 0..MaxFormats }

(* formatToFilename[f]; for an inherited key the value is a function, which
   the URL template turns into its source text *)
formatToFilename(f) ==
  CASE f = "json" -> "all_results.json"
    [] f = "csv" -> "all_results.csv"
    [] f = "markdown-book" -> "all_results.md"
    [] OTHER -> "function toString() { [native code] }"

Thrown == [threw |-> TRUE, ret |-> <<>>]

(* mutant of exportJob: the entries without a url are not filtered out *)
exportJobKeepNull(job, formats) ==
  LET requested == SelectSeq(formats,
                             LAMBDA f : f \in OwnFormats \cup InheritedKeys)
      links == [i \in 1..Len(requested) |->
                  [format |-> requested[i],
                   url |-> buildDownloadUrl(job.jobDir,
                                            formatToFilename(requested[i]))]]
  IN IF Len(links) = 0 THEN Thrown ELSE [threw |-> FALSE, ret |-> links]

(* exportJob, real backend, asynchronous variant, for a job that was found *)
exportJob(job, formats) ==
  LET requested == SelectSeq(formats,
                             LAMBDA f : f \in OwnFormats \cup InheritedKeys)
      mapped == [i \in 1..Len(requested) |->
                   [format |-> requested[i],
                    url |-> buildDownloadUrl(job.jobDir,
                                             formatToFilename(requested[i]))]]
      links == SelectSeq(mapped, LAMBDA l : l.url # NoDir)
  IN IF Len(links) = 0 THEN Thrown ELSE [threw |-> FALSE, ret |-> links]

(* exportJob, mock branch of the asynchronous variant: one blob URL per
   requested format *)
exportJobMock(formats) ==
  [threw |-> FALSE,
   ret |-> [i \in 1..Len(formats) |->
              [format |-> formats[i], url |-> <<"blob:", formats[i]>>]]]

(* exportJob, real backend, synchronous variant: the first link, whatever
   the formats *)
exportJobSync(job) ==
  LET files == <<"all_results.json", "all_results.csv", "all_results.md">>
      links == SelectSeq([i \in 1..3 |->
                            [fn |-> files[i],
                             url |-> buildDownloadUrl(job.jobDir, files[i])]],
                         LAMBDA x : x.url # NoDir)
  IN IF Len(links) = 0 THEN Thrown ELSE [threw |-> FALSE, ret |-> links[1].url]

(* JobService.exportJob(jobId, formats), for a list of formats of the set
   lists *)
ExportJobOf(lists) ==
  /\ \E jobId \in IdPool, formats \in lists :
       LET i == FindJob(jobs, jobId)
           r == IF i = 0 THEN Thrown
                ELSE IF USE_MOCK THEN exportJobMock(formats)
                ELSE IF variant = "async" THEN exportJob(jobs[i], formats)
                ELSE exportJobSync(jobs[i])
       IN last' = Returned("exportJob", jobId, formats, r.threw, r.ret)
  /\ UNCHANGED <<USE_MOCK, variant, now, jobs, logs, intervals, toast>>
  /\ UNCHANGED app

ExportJob == ExportJobOf(FormatLists)

(* --------------------------- services/api.ts --------------------------- *)
NoData == [status |-> NoStr]

(* what one fetch of postJSON comes to: it rejects (network error), the
   timer of withTimeout rejects first, it answers with a non-2xx status, or
   it answers 2xx with a body: {status: 'ok'}, {status: 'error'} or no JSON
   at all *)
FetchOutcomes ==
  { [kind |-> "reject", ok |-> FALSE, data |-> NoData],
    [kind |-> "timeout", ok |-> FALSE, data |-> NoData],
    [kind |-> "http", ok |-> FALSE, data |-> NoData],
    [kind |-> "http", ok |-> TRUE, data |-> [status |-> "ok"]],
    [kind |-> "http", ok |-> TRUE, data |-> [status |-> "error"]],
    [kind |-> "http", ok |-> TRUE, data |-> NoData] }

PostAttempts == 2

(* the error a failed fetch leaves: the rejection of fetch, the Error of
   withTimeout (whose text names the timeout of that attempt) or the
   'HTTP ...' Error made from the response; attempt tells which fetch *)
NoError == [kind |-> NoStr, attempt |-> 0]
ErrorOf(attempts, k) == [kind |-> attempts[k].kind, attempt |-> k]

(* new Error('VITE_API_URL is not set') *)
NotConfigured == [kind |-> "VITE_API_URL is not set", attempt |-> 0]

(* mutant of postJSON: the error of the first attempt is the one thrown *)
postJSONFirstError(base, attempts) ==
  IF base = NoStr
  THEN [threw |-> TRUE, data |-> NoData, posts |-> 0, waits |-> 0,
        error |-> NotConfigured]
  ELSE IF attempts[1].ok
  THEN [threw |-> FALSE, data |-> attempts[1].data, posts |-> 1, waits |-> 0,
        error |-> NoError]
  ELSE IF attempts[PostAttempts].ok
  THEN [threw |-> FALSE, data |-> attempts[PostAttempts].data,
        posts |-> PostAttempts, waits |-> 1, error |-> NoError]
  ELSE [threw |-> TRUE, data |-> NoData, posts |-> PostAttempts,
        waits |-> PostAttempts, error |-> ErrorOf(attempts, 1)]

(* postJSON(path, body) of a build with base URL `base`; attempts[k] is what
   the k-th fetch comes to.  posts counts the requests sent, waits the
   1500 ms pauses taken (one after every failed attempt, the last one
   included), error is what is thrown *)
postJSON(base, attempts) ==
  IF base = NoStr
  THEN [threw |-> TRUE, data |-> NoData, posts |-> 0, waits |-> 0,
        error |-> NotConfigured]
  ELSE IF attempts[1].ok
  THEN [threw |-> FALSE, data |-> attempts[1].data, posts |-> 1, waits |-> 0,
        error |-> NoError]
  ELSE IF attempts[PostAttempts].ok
  THEN [threw |-> FALSE, data |-> attempts[PostAttempts].data,
        posts |-> PostAttempts, waits |-> 1, error |-> NoError]
  ELSE [threw |-> TRUE, data |-> NoData, posts |-> PostAttempts,
        waits |-> PostAttempts, error |-> ErrorOf(attempts, PostAttempts)]

(* the other version of services/api.ts: one fetch, no timeout, no retry *)
postJSONSingle(base, attempts) ==
  IF base = NoStr
  THEN [threw |-> TRUE, data |-> NoData, posts |-> 0, waits |-> 0,
        error |-> NotConfigured]
  ELSE IF attempts[1].ok
  THEN [threw |-> FALSE, data |-> attempts[1].data, posts |-> 1, waits |-> 0,
        error |-> NoError]
  ELSE [threw |-> TRUE, data |-> NoData, posts |-> 1, waits |-> 0,
        error |-> ErrorOf(attempts, 1)]

(* postJSON is called while the backend will answer as last.arg tells *)
PostJSON ==
  /\ last.op = "init"
  /\ last.arg \in [1..PostAttempts -> FetchOutcomes]
  /\ LET r == postJSON(BASE_URL, last.arg) IN
     last' = Returned("postJSON", NoStr, last.arg, r.threw, r)
  /\ UNCHANGED <<USE_MOCK, variant, now, jobs, logs, intervals, toast>>
  /\ UNCHANGED app

(* the same call in a build with the other version of services/api.ts *)
PostJSONSingle ==
  /\ last.op = "init"
  /\ last.arg \in [1..PostAttempts -> FetchOutcomes]
  /\ LET r == postJSONSingle(BASE_URL, last.arg) IN
     last' = Returned("postJSONSingle", NoStr, last.arg, r.threw, r)
  /\ UNCHANGED <<USE_MOCK, variant, now, jobs, logs, intervals, toast>>
  /\ UNCHANGED app

(* ------------------------------- App.tsx ------------------------------- *)
(* getJobs()[0].id: the job created last comes first (stable sort by
   createdAt, newest first) *)
NewestJobId(js) ==
  LET best == CHOOSE i \in 1..Len(js) :
                \A k \in 1..Len(js) :
                  \/ js[k].createdAt < js[i].createdAt
                  \/ (js[k].createdAt = js[i].createdAt /\ i <= k)
  IN js[best].id

(* mutant of runEffect: the effect returns no cleanup *)
runEffectNoCleanup(timers, old, new) ==
  IF old = new THEN timers
  ELSE [timers EXCEPT ![new] = @ + 1]

(* the polling effect when selectedJobId goes from old to new: the cleanup
   of the previous run clears its interval, then a new interval is set that
   captures the new value.  React runs both when it commits the render with
   the new state; they are taken as one step with the state change *)
runEffect(timers, old, new) ==
  IF old = new THEN timers
  ELSE [timers EXCEPT ![old] = @ - 1, ![new] = @ + 1]

(* a log request sent by getJobLogs and not yet answered; by tells who
   called getJobLogs: the polling interval or handleJobSelect *)
LogRequest(jobId, by) == [jobId |-> jobId, by |-> by]

(* App.handleCreateJob(config), with the response of POST /crawl_async/:
   the new <<jobs, selectedJobId, pollTimers, toast>> *)
handleCreateJob(js, sel, timers, config, res, t) ==
  LET r == createJobAsync(js, config, res, t) IN
  IF r.threw THEN << js, sel, timers, "error" >>
  ELSE << r.jobs, NewestJobId(r.jobs),
          runEffect(timers, sel, NewestJobId(r.jobs)), "success" >>

(* --------------------------- CrawlJobForm ------------------------------ *)
Blank == {"", " "}

(* s.trim() *)
trim(s) == IF s \in Blank THEN "" ELSE s

(* the configurations the form is submitted with: the name typed or left
   blank; the start URLs as the list stands (it starts as [''] and the form
   never removes its last entry; handleSubmit checks for the empty list as
   well) *)
FormConfigs ==
  { [name |-> n, startUrls |-> us, maxPages |-> MaxPages] :
      n \in {"crawl", " "},
      us \in { <<>>, <<" ">>, <<"u">>, <<" ", "u">> } }

(* mutant of formRefusal: the start URLs are not looked at *)
formRefusalNameOnly(config) ==
  IF trim(config.name) = "" THEN "Please provide a job name"
  ELSE NoStr

(* the alert handleSubmit returns with before it sends anything, NoStr if
   the configuration passes *)
formRefusal(config) ==
  IF trim(config.name) = "" THEN "Please provide a job name"
  ELSE IF Len(config.startUrls) = 0 \/ trim(config.startUrls[1]) = ""
  THEN "Please provide at least one start URL"
  ELSE NoStr

(* the well-formed configurations any caller may hand to createJob: those
   of Configs and two without a start URL *)
ServiceConfigs ==
  Configs \cup { [name |-> "crawl", startUrls |-> us, maxPages |-> MaxPages] :
                   us \in { <<>>, <<" ">> } }

(* JobService.createJob called directly, without the form *)
CreateJobDirect == CreateJobAsyncOf(ServiceConfigs)

(* what handleSubmit comes to: the alert shown, the requests postJSON sent,
   the crawl-start requests the backend accepted (POST /crawl answered
   {status: 'ok'}, POST /crawl_async/ answered with a job_id) and whether
   onSubmit was called *)
Submitted(config, alert, posts, started, onSubmit) ==
  Returned("handleSubmit", NoStr, config, FALSE,
           [alert |-> alert, posts |-> posts, started |-> started,
            onSubmit |-> onSubmit])

(* CrawlJobForm.handleSubmit, with onSubmit = App.handleCreateJob *)
handleSubmit ==
  /\ mounted
  /\ \E config \in FormConfigs :
       IF formRefusal(config) # NoStr
       THEN /\ last' = Submitted(config, formRefusal(config), 0, 0, FALSE)
            /\ UNCHANGED <<jobs, selectedJobId, pollTimers, toast>>
       ELSE \E attempts \in [1..PostAttempts -> FetchOutcomes] :
            LET p == postJSON(BASE_URL, attempts) IN
            IF p.threw \/ p.data = NoData
            THEN /\ last' = Submitted(config, "Failed to connect to backend",
                                      p.posts, 0, FALSE)
                 /\ UNCHANGED <<jobs, selectedJobId, pollTimers, toast>>
            ELSE IF p.data.status # "ok"
            THEN /\ last' = Submitted(config, "Error", p.posts, 0, FALSE)
                 /\ UNCHANGED <<jobs, selectedJobId, pollTimers, toast>>
            ELSE \E res \in AsyncResponses :
                 LET h == handleCreateJob(jobs, selectedJobId, pollTimers,
                                          config, res, now)
                 IN /\ Len(h[1]) <= MaxJobs
                    /\ jobs' = h[1]
                    /\ selectedJobId' = h[2]
                    /\ pollTimers' = h[3]
                    /\ toast' = h[4]
                    /\ last' = Submitted(config, "Crawl started successfully!",
                                         p.posts,
                                         IF h[4] = "success" THEN 2 ELSE 1,
                                         TRUE)
  /\ UNCHANGED <<USE_MOCK, variant, now, logs, intervals, mounted, pending,
                 BASE_URL>>

(* App.handleJobSelect(jobId), for a job of the list shown *)
handleJobSelect ==
  /\ mounted
  /\ Len(pending) < MaxInFlight
  /\ \E i \in 1..Len(jobs) :
       LET jobId == jobs[i].id IN
       /\ selectedJobId' = jobId
       /\ pollTimers' = runEffect(pollTimers, selectedJobId, jobId)
       /\ pending' = Append(pending, LogRequest(jobId, "select"))
       /\ last' = Called("handleJobSelect", jobId, NoStr, FALSE)
  /\ UNCHANGED <<USE_MOCK, variant, now, jobs, logs, intervals, toast,
                 mounted, BASE_URL>>

(* one firing of a polling interval that captured selectedJobId = c *)
PollTick ==
  /\ Len(pending) < MaxInFlight
  /\ \E c \in IdPool \cup {NoStr} :
       /\ pollTimers[c] > 0
       /\ pending' = IF c # NoStr THEN Append(pending, LogRequest(c, "poll"))
                     ELSE pending
       /\ last' = Called("pollTick", c, NoStr, FALSE)
  /\ UNCHANGED <<USE_MOCK, variant, now, jobs, logs, intervals, toast,
                 mounted, selectedJobId, pollTimers, BASE_URL>>

(* App is unmounted: the cleanup of the effect clears its interval *)
Unmount ==
  /\ mounted
  /\ mounted' = FALSE
  /\ pollTimers' = [pollTimers EXCEPT ![selectedJobId] = @ - 1]
  /\ last' = Called("unmount", NoStr, NoStr, FALSE)
  /\ UNCHANGED <<USE_MOCK, variant, now, jobs, logs, intervals, toast,
                 selectedJobId, pending, BASE_URL>>

(* ------------------------------ getJobLogs ----------------------------- *)
RemoteLogPool ==
  { [ts |-> 1, level |-> "warn", message |-> "m1"],
    [ts |-> 2, level |-> NoStr, message |-> "m2"] }

(* bodies of GET /jobs/{id}/logs *)
RemoteLogLists ==
  UNION { [1..n -> RemoteLogPool] : n \in 0..MaxRemoteLogs }

NoLogs == [ok |-> FALSE, logs |-> <<>>]

(* what the fetch of getJobLogs comes to: NoLogs when it rejects, answers
   non-2xx or carries no usable body *)
LogResponses ==
  {NoLogs} \cup { [ok |-> TRUE, logs |-> ls] : ls \in RemoteLogLists }

(* data.logs.map((l, idx) => ...) *)
mapLogs(jobId, remote) ==
  [idx \in 1..Len(remote) |->
     [id |-> <<jobId, idx - 1, remote[idx].ts>>,
      jobId |-> jobId,
      level |-> IF remote[idx].level = NoStr THEN "info"
                ELSE remote[idx].level,
      message |-> remote[idx].message,
      timestamp |-> remote[idx].ts * 1000]]

(* mutant of storeLogs: the fetched entries are appended to the cache *)
storeLogsAppend(ls, jobId, mapped) == ls \o mapped

(* logs.filter(x => x.jobId !== jobId).concat(mapped) *)
storeLogs(ls, jobId, mapped) ==
  SelectSeq(ls, LAMBDA x : x.jobId # jobId) \o mapped

Without(seq, k) == SubSeq(seq, 1, k - 1) \o SubSeq(seq, k + 1, Len(seq))

(* a log request in flight is answered and getJobLogs runs to its end *)
getJobLogsReturn ==
  /\ \E k \in 1..Len(pending), res \in LogResponses :
       LET jobId == pending[k].jobId IN
       /\ pending' = Without(pending, k)
       /\ logs' = IF res.ok
                  THEN storeLogs(logs, jobId, mapLogs(jobId, res.logs))
                  ELSE logs
       /\ last' = Called("getJobLogs", jobId, res, FALSE)
  /\ UNCHANGED <<USE_MOCK, variant, now, jobs, intervals, toast, mounted,
                 selectedJobId, pollTimers, BASE_URL>>

(* JobService.getJobLogs(jobId) as one step, the answer of the backend (one
   of responses) included: the asynchronous version replaces the cached
   entries of the job when the fetch succeeds, the synchronous version only
   reads the cache *)
getJobLogs(responses) ==
  /\ \E jobId \in IdPool, res \in responses :
       /\ logs' = IF variant = "async" /\ res.ok
                  THEN storeLogs(logs, jobId, mapLogs(jobId, res.logs))
                  ELSE logs
       /\ Len(logs') <= MaxLogs
       /\ last' = Called("getJobLogs", jobId, res, FALSE)
  /\ UNCHANGED <<USE_MOCK, variant, now, jobs, intervals, toast>>
  /\ UNCHANGED app



(* ------------------------------- getJobs ------------------------------- *)
(* [...js].sort((a, b) => b.createdAt - a.createdAt): a sorted copy, newest
   first, jobs of equal createdAt in the order of the store *)
SortedNewestFirst(js) ==
  LET RECURSIVE Sorted(_)
      Sorted(n) ==
        IF n = 0 THEN <<>>
        ELSE LET s == Sorted(n - 1)
                 p == Cardinality({ k \in 1..Len(s) :
                                      s[k].createdAt >= js[n].createdAt })
             IN SubSeq(s, 1, p) \o <<js[n]>> \o SubSeq(s, p + 1, Len(s))
  IN Sorted(Len(js))

(* JobService.getJobs(): the ids of the list returned *)
getJobs ==
  /\ last' = Returned("getJobs", NoStr, NoStr, FALSE,
                      [i \in 1..Len(jobs) |-> SortedNewestFirst(jobs)[i].id])
  /\ UNCHANGED <<USE_MOCK, variant, now, jobs, logs, intervals, toast>>
  /\ UNCHANGED app

(* ------------------------------ clock ---------------------------------- *)
AdvanceClock ==
  /\ now < MaxClock
  /\ now' = now + 1
  /\ UNCHANGED <<USE_MOCK, variant, jobs, logs, intervals, toast, last>>
  /\ UNCHANGED app

(* ------------------------------ system --------------------------------- *)
(* App after its first render and effect: nothing selected, one polling
   interval that captured selectedJobId = null, nothing in flight *)
AppMounted ==
  /\ mounted = TRUE
  /\ selectedJobId = NoStr
  /\ pollTimers = [c \in IdPool \cup {NoStr} |-> IF c = NoStr THEN 1 ELSE 0]
  /\ pending = <<>>

(* VITE_API_URL is set in the build *)
ApiConfigured == BASE_URL = "http://api"

Init ==
  /\ USE_MOCK \in BOOLEAN
  /\ variant \in Variants
  /\ USE_MOCK => variant = "async"
  /\ now = 1
  /\ jobs = <<>>
  /\ logs = <<>>
  /\ intervals = [i \in IdPool |-> 0]
  /\ toast = "none"
  /\ last = NoOp
  /\ AppMounted
  /\ ApiConfigured

Next ==
  \/ CreateJobMock
  \/ CreateJobAsync
  \/ CreateJobSync
  \/ handleJobAction
  \/ IntervalTick
  \/ syncJobFromBackend
  \/ AdvanceClock

Spec == Init /\ [][Next]_vars

(* the front end on the real asynchronous backend: the form, App with its
   polling effect and the log requests of getJobLogs *)
InitApp ==
  /\ USE_MOCK = FALSE
  /\ variant = "async"
  /\ now = 1
  /\ jobs = <<>>
  /\ logs = <<>>
  /\ intervals = [i \in IdPool |-> 0]
  /\ toast = "none"
  /\ last = NoOp
  /\ AppMounted
  /\ BASE_URL \in {NoStr, "http://api"}

NextApp ==
  \/ handleSubmit
  \/ handleJobSelect
  \/ PollTick
  \/ getJobLogsReturn
  \/ Unmount

SpecApp == InitApp /\ [][NextApp]_vars

(* App while it stays mounted: its polling interval keeps firing and every
   log request is answered in the end *)
NextPoll ==
  \/ handleSubmit
  \/ handleJobSelect
  \/ PollTick
  \/ getJobLogsReturn

SpecPoll ==
  /\ InitApp
  /\ [][NextPoll]_vars
  /\ WF_vars(PollTick)
  /\ WF_vars(getJobLogsReturn)

(* the two ways a configuration reaches the job service: through the form
   and by a direct call of createJob *)
NextSubmit ==
  \/ handleSubmit
  \/ CreateJobDirect

SpecSubmit == InitApp /\ [][NextSubmit]_vars

(* the job service with exportJob, at one clock value *)
NextExport ==
  \/ CreateJobMock
  \/ CreateJobAsync
  \/ CreateJobSync
  \/ syncJobFromBackend
  \/ ExportJob

SpecExport == Init /\ [][NextExport]_vars

(* the log entries the simulation may still write for the jobs js: one per
   page left to crawl and one for the completion of each job not yet ended *)
TickLogsLeft(js) ==
  LET RECURSIVE Left(_)
      Left(i) ==
        IF i = 0 THEN 0
        ELSE Left(i - 1)
             + (IF js[i].status \in Terminal THEN 0
                ELSE Max(0, Min(js[i].config.maxPages, SimCap)
                            - js[i].counts.crawled) + 1)
  IN Left(Len(js))

(* the mock build alone, with its simulation.  The creations and the actions
   leave room in the bounded log for every entry the simulation may still
   write, so that no firing of an interval is held back by MaxLogs; every
   interval alive keeps firing *)
InitSim ==
  /\ USE_MOCK = TRUE
  /\ variant = "async"
  /\ now = 1
  /\ jobs = <<>>
  /\ logs = <<>>
  /\ intervals = [i \in IdPool |-> 0]
  /\ toast = "none"
  /\ last = NoOp
  /\ AppMounted
  /\ ApiConfigured

NextSim ==
  \/ CreateJobMock /\ Len(logs') + TickLogsLeft(jobs') <= MaxLogs
  \/ handleJobAction /\ Len(logs') + TickLogsLeft(jobs') <= MaxLogs
  \/ IntervalTick
  \/ AdvanceClock

SpecSim ==
  /\ InitSim
  /\ [][NextSim]_vars
  /\ \A jobId \in IdPool : WF_vars(IntervalTick /\ last'.id = jobId)

(* every operation of the job service on a store of at most MaxFrameJobs
   jobs and MaxFrameLogs log entries, in the three builds *)
(* what the fetch of getJobLogs comes to here: the mock build has no backend
   to answer it; a backend answers with one entry *)
FrameLogResponses ==
  IF USE_MOCK THEN {NoLogs}
  ELSE { NoLogs,
         [ok |-> TRUE,
          logs |-> << [ts |-> 1, level |-> "warn", message |-> "m1"] >>] }

FrameBound ==
  /\ Len(jobs') <= MaxFrameJobs
  /\ Len(logs') <= MaxFrameLogs

NextFrame ==
  \/ CreateJobMock /\ FrameBound
  \/ CreateJobAsync /\ FrameBound
  \/ CreateJobSync /\ FrameBound
  \/ handleJobAction /\ FrameBound
  \/ IntervalTick /\ FrameBound
  \/ syncJobFromBackend
  \/ getJobLogs(FrameLogResponses) /\ FrameBound
  \/ ExportJobOf({ <<"json", "csv">> })
  \/ getJobs
  \/ AdvanceClock

SpecFrame == Init /\ [][NextFrame]_vars

(* postJSON on every pair of fetch outcomes, with and without VITE_API_URL *)
InitPost ==
  /\ USE_MOCK = FALSE
  /\ variant = "async"
  /\ now = 1
  /\ jobs = <<>>
  /\ logs = <<>>
  /\ intervals = [i \in IdPool |-> 0]
  /\ toast = "none"
  /\ last \in { [NoOp EXCEPT !.arg = a] :
                  a \in [1..PostAttempts -> FetchOutcomes] }
  /\ AppMounted
  /\ BASE_URL \in {NoStr, "http://api"}

NextPost ==
  \/ PostJSON
  \/ PostJSONSingle

SpecPost == InitPost /\ [][NextPost]_vars

(* extractJobFolder on every token *)
InitFolder ==
  /\ USE_MOCK = FALSE
  /\ variant = "async"
  /\ now = 1
  /\ jobs = <<>>
  /\ logs = <<>>
  /\ intervals = [i \in IdPool |-> 0]
  /\ toast = "none"
  /\ last \in { [NoOp EXCEPT !.arg = t] : t \in Tokens }
  /\ AppMounted
  /\ ApiConfigured

NextFolder ==
  \/ NormalizeToken
  \/ NormalizeFolder

SpecFolder == InitFolder /\ [][NextFolder]_vars

(* ======================================================================= *)
(* Properties                                                              *)
(* ======================================================================= *)

(* the step is a call of operation op (a clock step changes `now` only) *)
IsCall(op) == last'.op = op /\ now' = now

ReportsEnd(info) == info.done \/ info.error # NoStr

(* C1: in every reachable state, every job has finishedAt set if and only
   if its status is completed, failed or canceled *)
FinishedAtIffTerminal ==
  \A i \in 1..Len(jobs) :
    (jobs[i].finishedAt # NoDate) <=> (jobs[i].status \in Terminal)

(* a reconciliation has just ended one job while another is still running *)
FinishedAtIffTerminalWitness ==
  /\ last.op = "syncJobFromBackend"
  /\ last.arg.present
  /\ ReportsEnd(last.arg)
  /\ \E i, k \in 1..Len(jobs) :
       /\ jobs[i].id = last.id
       /\ jobs[i].status \in Terminal
       /\ jobs[i].finishedAt = now
       /\ jobs[k].status = "running"
       /\ jobs[k].finishedAt = NoDate

(* C2: terminal states are absorbing: no performAction, reconciliation or
   simulation tick changes the status of a job that is completed, failed or
   canceled *)
TerminalAbsorbing ==
  [][ (IsCall("performJobAction") \/ IsCall("syncJobFromBackend")
       \/ IsCall("tick"))
      => \A i \in 1..Len(jobs) :
           jobs[i].status \in Terminal
             => /\ i <= Len(jobs')
                /\ jobs'[i].status = jobs[i].status ]_vars

(* C3: once finishedAt is set, a reconciliation whose snapshot reports done
   or error leaves finishedAt at its first value *)
FinishedAtStampedOnce ==
  [][ (IsCall("syncJobFromBackend") /\ last'.arg.present
       /\ ReportsEnd(last'.arg))
      => \A i \in 1..Len(jobs) :
           jobs[i].finishedAt # NoDate
             => jobs'[i].finishedAt = jobs[i].finishedAt ]_vars

(* the step applies to a known job the snapshot that the call before it
   applied *)
SecondApplication ==
  /\ IsCall("syncJobFromBackend")
  /\ last'.again
  /\ last'.arg.present
  /\ FindJob(jobs, last'.id) # 0

(* C4 as stated: the second application of the same snapshot leaves the job
   record identical in every field *)
SameSnapshotTwiceIdentical ==
  [][ SecondApplication => jobs' = jobs ]_vars

(* C4 as amended: the second application of the same snapshot leaves every
   field of the job as it was, except updatedAt and, when the snapshot
   reports done or error, finishedAt; the other jobs are untouched *)
SameSnapshotTwiceButTimestamps ==
  [][ SecondApplication
      => /\ Len(jobs') = Len(jobs)
         /\ \A i \in 1..Len(jobs) :
              IF i = FindJob(jobs, last'.id)
              THEN jobs'[i] =
                     [jobs[i] EXCEPT
                        !.updatedAt = jobs'[i].updatedAt,
                        !.finishedAt = IF ReportsEnd(last'.arg)
                                       THEN jobs'[i].finishedAt ELSE @]
              ELSE jobs'[i] = jobs[i] ]_vars

(* the same snapshot, carrying a count, has been applied twice to a job, the
   second time at a later clock value than the job's creation *)
SameSnapshotTwiceWitness ==
  /\ last.op = "syncJobFromBackend"
  /\ last.again
  /\ last.arg.present
  /\ last.arg.crawled > 0
  /\ FindJob(jobs, last.id) # 0
  /\ jobs[FindJob(jobs, last.id)].updatedAt = now
  /\ jobs[FindJob(jobs, last.id)].createdAt < now

(* C5: across reconciliations during which a job stays running, its
   counts.crawled and counts.failed never decrease, whatever the snapshot
   carries *)
CountsMonotoneWhileRunning ==
  [][ IsCall("syncJobFromBackend")
      => \A i \in 1..Len(jobs) :
           (jobs[i].status = "running" /\ jobs'[i].status = "running")
             => /\ jobs'[i].counts.crawled >= jobs[i].counts.crawled
                /\ jobs'[i].counts.failed >= jobs[i].counts.failed ]_vars

LegalEdge(from, action, to) ==
  \/ action = "start" /\ from = "queued" /\ to = "running"
  \/ action = "pause" /\ from = "running" /\ to = "paused"
  \/ action = "resume" /\ from = "paused" /\ to = "running"
  \/ action = "cancel" /\ from \in {"queued", "running", "paused"}
       /\ to = "canceled"

LegalPair(from, action) == \E to \in JobStatus : LegalEdge(from, action, to)

(* C6: performAction changes a status only along start: queued->running,
   pause: running->paused, resume: paused->running, cancel:
   {queued,running,paused}->canceled; for every other (status, action) pair
   the jobs and the logs are unchanged *)
PerformActionLegalEdges ==
  [][ IsCall("performJobAction")
      => LET i == FindJob(jobs, last'.id) IN
         /\ Len(jobs') = Len(jobs)
         /\ \A k \in 1..Len(jobs) :
              jobs'[k].status # jobs[k].status
                => /\ k = i
                   /\ LegalEdge(jobs[k].status, last'.arg, jobs'[k].status)
         /\ (i = 0 \/ ~LegalPair(jobs[i].status, last'.arg))
              => (jobs' = jobs /\ logs' = logs) ]_vars

(* a pause has just taken a running job to paused *)
PerformActionLegalEdgesWitness ==
  /\ USE_MOCK
  /\ last.op = "performJobAction"
  /\ last.arg = "pause"
  /\ ~last.threw
  /\ StatusOf(jobs, last.id) = "paused"
  /\ Len(logs) > 0
  /\ logs[Len(logs)].message = <<"Crawl job paused", 0>>

(* C7: performAction on a completed, failed or canceled job does not throw,
   changes no field of any job and adds no log entry *)
TerminalActionIsNoOp ==
  [][ (IsCall("performJobAction")
       /\ StatusOf(jobs, last'.id) \in Terminal)
      => /\ ~last'.threw
         /\ toast' # "error"
         /\ jobs' = jobs
         /\ logs' = logs ]_vars

(* in mock mode a pause has just been requested for a job that the
   simulation had completed (a pause never ends a job) *)
TerminalActionIsNoOpWitness ==
  /\ USE_MOCK
  /\ last.op = "performJobAction"
  /\ last.arg = "pause"
  /\ ~last.threw
  /\ StatusOf(jobs, last.id) = "completed"

(* C8: with the real backend, performAction leaves the jobs unchanged and
   its outcome is never reported as a success *)
RealActionReportedIneffective ==
  [][ (IsCall("performJobAction") /\ ~USE_MOCK)
      => (jobs' = jobs /\ toast' # "success") ]_vars

(* the remote submission did not succeed: the fetch rejected, the status
   was not 2xx, or the body carried no job id (asynchronous variant) / no
   ok status or no result (synchronous variant) *)
SubmissionFailed(res) ==
  \/ res.kind = "neterr"
  \/ /\ res.kind = "http"
     /\ \/ ~res.ok
        \/ IF variant = "async" THEN res.job_id = NoStr
           ELSE res.status # "ok" \/ Len(res.results) = 0

(* C9: when the remote submission does not succeed, createJob throws and
   the jobs and the logs are what they were before the call *)
FailedCreateLeavesStore ==
  [][ (IsCall("createJob") /\ SubmissionFailed(last'.arg.res))
      => /\ last'.threw
         /\ jobs' = jobs
         /\ logs' = logs ]_vars

(* a 2xx response without a job id has just been refused while the store
   held a job *)
FailedCreateLeavesStoreWitness ==
  /\ last.op = "createJob"
  /\ last.threw
  /\ variant = "async"
  /\ last.arg.res.kind = "http"
  /\ last.arg.res.ok
  /\ last.arg.res.job_id = NoStr
  /\ Len(jobs) > 0

ZeroCounts == [crawled |-> 0, queued |-> 0, failed |-> 0]

(* js2 is js with the one job j inserted at position k *)
InsertedAt(js, js2, k) ==
  /\ Len(js2) = Len(js) + 1
  /\ k \in 1..Len(js2)
  /\ \A i \in 1..Len(js) : js[i] = js2[IF i < k THEN i ELSE i + 1]

(* C10 as stated: a successful createJob adds exactly one job, running or
   queued, with counts {0,0,0} and createdAt = startedAt = the time of the
   call, and modifies no other job *)
CreateAddsOneFreshJob ==
  [][ (IsCall("createJob") /\ ~last'.threw)
      => \E k \in 1..Len(jobs') :
           /\ InsertedAt(jobs, jobs', k)
           /\ jobs'[k].status \in {"running", "queued"}
           /\ jobs'[k].counts = ZeroCounts
           /\ jobs'[k].createdAt = now
           /\ jobs'[k].startedAt = now ]_vars

(* C10 as amended: a successful createJob modifies no job already stored
   and adds, with the asynchronous real backend, one running job in front
   with counts {0,0,0} and createdAt = startedAt = the time of the call; in
   mock mode, one queued job at the end with counts {0, min(maxPages,20), 0},
   createdAt = the time of the call and no startedAt; with the synchronous
   real backend, one completed job per returned result in front, with
   crawled = the pages reported, createdAt = startedAt = finishedAt = the
   time of the call *)
CreateAddsJobsPerMode ==
  [][ (IsCall("createJob") /\ ~last'.threw)
      => LET n == Len(jobs') - Len(jobs)
             config == last'.arg.config
         IN
         IF USE_MOCK
         THEN /\ n = 1
              /\ SubSeq(jobs', 1, Len(jobs)) = jobs
              /\ jobs'[Len(jobs')].status = "queued"
              /\ jobs'[Len(jobs')].counts =
                   [crawled |-> 0,
                    queued |-> Min(config.maxPages, MockQueueCap),
                    failed |-> 0]
              /\ jobs'[Len(jobs')].createdAt = now
              /\ jobs'[Len(jobs')].startedAt = NoDate
         ELSE IF variant = "async"
         THEN /\ n = 1
              /\ SubSeq(jobs', 2, Len(jobs')) = jobs
              /\ jobs'[1].status = "running"
              /\ jobs'[1].counts = ZeroCounts
              /\ jobs'[1].createdAt = now
              /\ jobs'[1].startedAt = now
         ELSE /\ n = Len(last'.arg.res.results)
              /\ n >= 1
              /\ SubSeq(jobs', n + 1, Len(jobs')) = jobs
              /\ \A i \in 1..n :
                   /\ jobs'[i].status = "completed"
                   /\ jobs'[i].counts.crawled =
                        (IF last'.arg.res.results[i].pages = NoCount THEN 0
                         ELSE last'.arg.res.results[i].pages)
                   /\ jobs'[i].counts.queued = 0
                   /\ jobs'[i].counts.failed = 0
                   /\ jobs'[i].createdAt = now
                   /\ jobs'[i].startedAt = now
                   /\ jobs'[i].finishedAt = now ]_vars

(* the asynchronous backend has just accepted a second job, at a later
   clock value, while the first had already been reconciled *)
CreateAddsJobsPerModeWitness ==
  /\ ~USE_MOCK
  /\ variant = "async"
  /\ last.op = "createJob"
  /\ ~last.threw
  /\ Len(jobs) = 2
  /\ jobs[1].status = "running"
  /\ jobs[1].createdAt = now
  /\ jobs[2].createdAt < now
  /\ jobs[2].updatedAt # NoDate

(* every segment of the token is a non-empty name *)
PlainToken(t) == \A i \in 1..Len(t) : t[i] # ""

(* C14: extractJobFolder returns the final path segment of every non-empty
   token, whatever the number of its '/'-separated segments *)
FolderIsFinalSegment ==
  (last.op = "extractJobFolder" /\ ~last.again /\ PlainToken(last.arg))
    => last.ret = << last.arg[Len(last.arg)] >>

(* C15: for every token for which extractJobFolder returns a folder,
   extractJobFolder of that folder returns the folder itself *)
FolderIdempotent ==
  (last.op = "extractJobFolder" /\ last.again) => last.ret = last.arg

(* the folder taken from a token of three segments has been normalized a
   second time *)
FolderIdempotentWitness ==
  /\ last.op = "extractJobFolder"
  /\ last.again
  /\ last.arg = <<"job-1">>
  /\ last.ret = <<"job-1">>

(* the requested ids that are keys of the format table, in request order *)
KnownRequested(formats) == SelectSeq(formats, LAMBDA f : f \in OwnFormats)

(* url ends in /<folder>/<file> *)
EndsIn(url, folder, file) ==
  /\ Len(url) >= 2
  /\ url[Len(url) - 1] = folder
  /\ url[Len(url)] = file

(* C12: for a job that has a working-directory token, exportJob returns one
   {format, url} entry per requested id among json, csv, markdown-book, in
   request order, the url ending in /<folder>/all_results.json, .csv, .md;
   other ids are dropped, and when no requested id is among the three the
   call fails instead of returning an empty list (asynchronous variant with
   the real backend) *)
ExportOneLinkPerKnownFormat ==
  [][ (IsCall("exportJob") /\ ~USE_MOCK /\ variant = "async"
       /\ FindJob(jobs, last'.id) # 0
       /\ jobs[FindJob(jobs, last'.id)].jobDir # NoDir)
      => LET job == jobs[FindJob(jobs, last'.id)]
             known == KnownRequested(last'.arg)
         IN IF Len(known) = 0 THEN last'.threw
            ELSE /\ ~last'.threw
                 /\ Len(last'.ret) = Len(known)
                 /\ \A i \in 1..Len(known) :
                      /\ last'.ret[i].format = known[i]
                      /\ EndsIn(last'.ret[i].url,
                                job.jobDir[Len(job.jobDir)],
                                formatToFilename(known[i])) ]_vars

(* the call found the job without a jobDir *)
ExportBeforeJobDir ==
  /\ IsCall("exportJob")
  /\ FindJob(jobs, last'.id) # 0
  /\ jobs[FindJob(jobs, last'.id)].jobDir = NoDir

(* C13 as stated: for a known job without a working-directory token,
   exportJob fails for every requested format set and returns no URL; the
   jobs and the logs are unchanged *)
ExportFailsBeforeJobDir ==
  [][ ExportBeforeJobDir
      => /\ last'.threw
         /\ last'.ret = <<>>
         /\ jobs' = jobs
         /\ logs' = logs ]_vars

(* C13 as amended: with the real backend, exportJob for a known job
   without a working-directory token fails for every requested format set
   and returns no URL; in mock mode it does not fail and returns one local
   blob URL per requested format; in both, the jobs and the logs are
   unchanged *)
ExportFailsBeforeJobDirReal ==
  [][ ExportBeforeJobDir
      => /\ jobs' = jobs
         /\ logs' = logs
         /\ IF USE_MOCK
            THEN /\ ~last'.threw
                 /\ Len(last'.ret) = Len(last'.arg)
                 /\ \A i \in 1..Len(last'.arg) :
                      /\ last'.ret[i].format = last'.arg[i]
                      /\ last'.ret[i].url[1] = "blob:"
            ELSE /\ last'.threw
                 /\ last'.ret = <<>> ]_vars

(* with the real backend, json and csv have just been requested for a
   running job that has no jobDir yet, and the call threw *)
ExportFailsBeforeJobDirWitness ==
  /\ ~USE_MOCK
  /\ last.op = "exportJob"
  /\ last.arg = <<"json", "csv">>
  /\ last.threw
  /\ FindJob(jobs, last.id) # 0
  /\ jobs[FindJob(jobs, last.id)].jobDir = NoDir
  /\ jobs[FindJob(jobs, last.id)].status = "running"

(* C16: when the job-info fetch fails (the fetch rejects or the status is
   not 2xx), syncJobFromBackend does not throw and leaves every field of
   every job unchanged *)
FetchFailureLeavesJobs ==
  [][ (IsCall("syncJobFromBackend") /\ ~last'.arg.present)
      => /\ ~last'.threw
         /\ jobs' = jobs
         /\ logs' = logs ]_vars

(* the info fetch has just failed for a job that was reconciled at an
   earlier clock value: its updatedAt is still the earlier one *)
FetchFailureLeavesJobsWitness ==
  /\ last.op = "syncJobFromBackend"
  /\ ~last.arg.present
  /\ ~last.threw
  /\ FindJob(jobs, last.id) # 0
  /\ jobs[FindJob(jobs, last.id)].status = "running"
  /\ jobs[FindJob(jobs, last.id)].updatedAt # NoDate
  /\ jobs[FindJob(jobs, last.id)].updatedAt < now

(* C19: for every job at most one simulation ticker is alive at any time,
   whatever start, pause, resume and cancel actions and timer ticks came
   before *)
AtMostOneTicker ==
  \A jobId \in IdPool : intervals[jobId] <= 1

(* no start URL of the configuration is anything but blank (the empty list
   included) *)
NoStartUrl(config) ==
  \A i \in 1..Len(config.startUrls) : trim(config.startUrls[i]) = ""

(* C11 as stated: createJob called with a configuration whose start-URL
   list is empty or holds no non-blank URL fails before any network call is
   made and adds no job *)
CreateJobValidates ==
  [][ (IsCall("createJob") /\ NoStartUrl(last'.arg.config))
      => /\ last'.threw
         /\ last'.arg.res.kind \notin {"neterr", "http"}
         /\ jobs' = jobs ]_vars

(* C11 as amended: a configuration whose start-URL list is empty or holds
   no non-blank URL is refused by the caller of createJob, the submit
   handler of the form, with a validation message before any network call
   is made: nothing is sent, onSubmit (createJob) is not called and the
   jobs and the logs are left as they were *)
EmptySubmissionRefused ==
  [][ (IsCall("handleSubmit") /\ NoStartUrl(last'.arg))
      => /\ last'.ret.alert \in {"Please provide a job name",
                                 "Please provide at least one start URL"}
         /\ last'.ret.posts = 0
         /\ ~last'.ret.onSubmit
         /\ jobs' = jobs
         /\ logs' = logs ]_vars

(* a named configuration whose only start URL is blank has just been
   refused, in a build with a base URL and with a job already stored *)
EmptySubmissionRefusedWitness ==
  /\ BASE_URL # NoStr
  /\ last.op = "handleSubmit"
  /\ last.arg.name = "crawl"
  /\ last.arg.startUrls = <<" ">>
  /\ last.ret.alert = "Please provide at least one start URL"
  /\ Len(jobs) > 0

LogsOf(ls, jobId) == SelectSeq(ls, LAMBDA x : x.jobId = jobId)

(* C17: after a successful log fetch for a job, the cached entries of that
   job are exactly the entries of that fetch (as many as the remote list
   holds, in its order, no two with the same id), and the cached entries of
   every other job are what they were *)
FetchReplacesJobLogs ==
  [][ (IsCall("getJobLogs") /\ last'.arg.ok)
      => LET jobId == last'.id
             remote == last'.arg.logs
             cached == LogsOf(logs', jobId)
         IN /\ Len(cached) = Len(remote)
            /\ \A i \in 1..Len(remote) :
                 /\ cached[i].message = remote[i].message
                 /\ cached[i].timestamp = remote[i].ts * 1000
            /\ \A i, k \in 1..Len(cached) :
                 i # k => cached[i].id # cached[k].id
            /\ \A other \in IdPool \ {jobId} :
                 LogsOf(logs', other) = LogsOf(logs, other) ]_vars

(* a fetch of one entry has just replaced the cached entries of a job while
   the cache holds two entries of another job *)
FetchReplacesJobLogsWitness ==
  /\ last.op = "getJobLogs"
  /\ last.arg.ok
  /\ Len(last.arg.logs) = 1
  /\ Len(LogsOf(logs, last.id)) = 1
  /\ \E other \in IdPool \ {last.id} : Len(LogsOf(logs, other)) = 2
  /\ logs[1].jobId # last.id

(* C18: no two log requests sent by the polling loop for the same job are
   in flight at the same time *)
ReconciliationSerialized ==
  \A i, k \in 1..Len(pending) :
    (i # k /\ pending[i].by = "poll" /\ pending[k].by = "poll")
      => pending[i].jobId # pending[k].jobId

TimerCount(timers, cs) ==
  LET RECURSIVE Sum(_)
      Sum(S) == IF S = {} THEN 0
                ELSE LET c == CHOOSE x \in S : TRUE
                     IN timers[c] + Sum(S \ {c})
  IN Sum(cs)

(* C20: at any time at most one polling interval is alive, it is the one
   that captured the current selectedJobId, and none is alive after App is
   unmounted; a firing of the polling interval sends a log request for no
   job but the selected one *)
PollingFollowsSelection ==
  /\ [] /\ TimerCount(pollTimers, IdPool \cup {NoStr}) <= 1
        /\ \A c \in IdPool \cup {NoStr} :
             pollTimers[c] > 0 => (mounted /\ c = selectedJobId)
  /\ [][ IsCall("pollTick")
         => /\ mounted
            /\ last'.id = selectedJobId
            /\ \A i \in 1..Len(pending') :
                 (i > Len(pending) /\ pending'[i].by = "poll")
                   => pending'[i].jobId = selectedJobId ]_vars

(* App was unmounted after the selection had gone from one job to another:
   no interval is left, while a request sent for the first job is still in
   flight *)
PollingFollowsSelectionWitness ==
  /\ ~mounted
  /\ selectedJobId # NoStr
  /\ TimerCount(pollTimers, IdPool \cup {NoStr}) = 0
  /\ \E i \in 1..Len(pending) :
       pending[i].by = "poll" /\ pending[i].jobId # selectedJobId

(* C21: a firing of a simulation interval that finds its job absent or in a
   status other than running changes no job (counter, status, timestamp)
   and no log entry, and clears that interval *)
TickOnlyWhileRunning ==
  [][ (IsCall("tick") /\ StatusOf(jobs, last'.id) # "running")
      => /\ jobs' = jobs
         /\ logs' = logs
         /\ intervals' = [intervals EXCEPT ![last'.id] = @ - 1] ]_vars

(* an interval has just fired for a paused job whose counters had moved, at
   a later clock value than the pause, and no interval is left for it *)
TickOnlyWhileRunningWitness ==
  /\ last.op = "tick"
  /\ last.arg = "stopped"
  /\ intervals[last.id] = 0
  /\ FindJob(jobs, last.id) # 0
  /\ LET job == jobs[FindJob(jobs, last.id)] IN
     /\ job.status = "paused"
     /\ job.counts.crawled > 0
     /\ job.updatedAt < now

(* the capacity of the simulation for a job: Math.min(config.maxPages, 50) *)
Capacity(job) == Min(job.config.maxPages, SimCap)

(* C29: in every state reached by simulation ticks, a simulated job's
   crawled + failed does not exceed its capacity min(config.maxPages, 50),
   and crawled alone does not exceed it either *)
WithinCapacity ==
  USE_MOCK
    => \A i \in 1..Len(jobs) :
         /\ jobs[i].counts.crawled + jobs[i].counts.failed <= Capacity(jobs[i])
         /\ jobs[i].counts.crawled <= Capacity(jobs[i])

(* the job jobId has been completed with crawled + failed equal to its
   capacity *)
CompletedAtCapacity(jobId) ==
  /\ FindJob(jobs, jobId) # 0
  /\ LET job == jobs[FindJob(jobs, jobId)] IN
     /\ job.status = "completed"
     /\ job.counts.crawled + job.counts.failed = Capacity(job)
     /\ job.counts.queued = 0
     /\ job.finishedAt # NoDate

(* C22: a simulated job that is running and is neither paused nor canceled
   eventually has crawled + failed equal to its capacity, with status
   completed, queued 0 and finishedAt set; every firing of an interval after
   the completion leaves the jobs as they are *)
SimulationCompletesAtCapacity ==
  /\ \A jobId \in IdPool :
       (StatusOf(jobs, jobId) = "running")
         ~> \/ CompletedAtCapacity(jobId)
            \/ StatusOf(jobs, jobId) \in {"paused", "canceled"}
  /\ [][ (IsCall("tick") /\ StatusOf(jobs, last'.id) = "completed")
         => jobs' = jobs ]_vars

(* C30: in every reachable state, every job whose status is running has
   startedAt set, so getEstimatedTimeRemaining, which reads
   job.startedAt!.getTime() for a running job, never reads an absent date *)
RunningHasStartedAt ==
  \A i \in 1..Len(jobs) :
    jobs[i].status = "running" => jobs[i].startedAt # NoDate

(* a job that was started, paused and then resumed at a later clock value is
   running with the startedAt of its start *)
RunningHasStartedAtWitness ==
  /\ last.op = "performJobAction"
  /\ last.arg = "resume"
  /\ FindJob(jobs, last.id) # 0
  /\ LET job == jobs[FindJob(jobs, last.id)] IN
     /\ job.status = "running"
     /\ job.startedAt # NoDate
     /\ job.startedAt < now
     /\ job.updatedAt = now

(* C24: job ids are unique: after any sequence of createJob calls on the
   real asynchronous backend, whatever job_id values the remote service
   returns, no two jobs of the store have the same id.  (The ids of the mock
   and of the synchronous build are drawn by generateId(); their collisions
   are not held against the claim.) *)
UniqueJobIds ==
  (~USE_MOCK /\ variant = "async")
    => \A i, k \in 1..Len(jobs) : i # k => jobs[i].id # jobs[k].id

(* C23: after a job is created, no performJobAction, reconciliation, log
   fetch, simulation tick, export or getJobs changes its id, its config or
   its createdAt *)
JobIdentityFrozen ==
  [][ (\/ IsCall("performJobAction")
       \/ IsCall("syncJobFromBackend")
       \/ IsCall("getJobLogs")
       \/ IsCall("tick")
       \/ IsCall("exportJob")
       \/ IsCall("getJobs"))
      => /\ Len(jobs') = Len(jobs)
         /\ \A i \in 1..Len(jobs) :
              /\ jobs'[i].id = jobs[i].id
              /\ jobs'[i].config = jobs[i].config
              /\ jobs'[i].createdAt = jobs[i].createdAt ]_vars

(* a reconciliation has just rewritten status, counts, jobDir and the
   timestamps of a job at a later clock value than its creation *)
JobIdentityFrozenWitness ==
  /\ last.op = "syncJobFromBackend"
  /\ last.arg.present
  /\ last.arg.done
  /\ FindJob(jobs, last.id) # 0
  /\ LET job == jobs[FindJob(jobs, last.id)] IN
     /\ job.status = "completed"
     /\ job.jobDir # NoDir
     /\ job.updatedAt = now
     /\ job.createdAt < now

(* C25: postJSON makes at most two attempts: exactly one when the first
   succeeds; a second one, after one pause, when the first fails by network
   error, non-2xx status or timeout; the result of a successful second
   attempt is returned; when both fail, the error thrown is the error of
   the second attempt *)
PostRetriesOnce ==
  (last.op = "postJSON" /\ BASE_URL # NoStr)
    => LET first == last.arg[1]
           second == last.arg[2]
           r == last.ret
       IN /\ r.posts <= 2
          /\ first.ok => /\ r.posts = 1
                         /\ r.waits = 0
                         /\ ~last.threw
                         /\ r.data = first.data
          /\ ~first.ok => /\ r.posts = 2
                          /\ r.waits >= 1
          /\ (~first.ok /\ second.ok) => /\ ~last.threw
                                         /\ r.data = second.data
          /\ (~first.ok /\ ~second.ok)
               => /\ last.threw
                  /\ r.error = [kind |-> second.kind, attempt |-> 2]

(* the first attempt timed out, the second was answered with a non-2xx
   status, and the HTTP error of the second attempt was thrown *)
PostRetriesOnceWitness ==
  /\ last.op = "postJSON"
  /\ BASE_URL # NoStr
  /\ last.arg[1].kind = "timeout"
  /\ last.arg[2].kind = "http"
  /\ ~last.arg[2].ok
  /\ last.threw
  /\ last.ret.posts = 2
  /\ last.ret.error.kind = "http"

(* C26: when no base endpoint is configured (VITE_API_URL unset), a remote
   operation fails at first use without a network request: the postJSON of
   the form's submit handler sends nothing, and createJob of the job
   service throws without a request having been answered or refused by the
   network *)
NoEndpointNoRequest ==
  [][ BASE_URL = NoStr
      => /\ IsCall("handleSubmit")
              => /\ last'.ret.posts = 0
                 /\ ~last'.ret.onSubmit
         /\ IsCall("createJob")
              => /\ last'.threw
                 /\ last'.arg.res.kind \notin {"neterr", "http"}
                 /\ jobs' = jobs ]_vars

(* C28: one submission of the form starts at most one crawl on the remote
   service: across handleSubmit and the createJob call it triggers, at most
   one crawl-start POST is accepted *)
OneStartPerSubmission ==
  last.op = "handleSubmit" => last.ret.started <= 1

(* C27: while a job is the selected job and the remote service reports it
   done or in error, the polling loop eventually merges that snapshot: the
   job, running locally, becomes completed or failed (or stops being the
   selected job) *)
PollingMergesEnd ==
  \A jobId \in IdPool :
    (selectedJobId = jobId /\ StatusOf(jobs, jobId) = "running")
      ~> \/ selectedJobId # jobId
         \/ StatusOf(jobs, jobId) \in {"completed", "failed"}
====
